---- MODULE Spec2Model ----
(***************************************************************************)
(* Model of res/res_geolocation/geoloc_datastore.c: the per-channel        *)
(* datastore that holds an ordered vector of effective profiles            *)
(* (eprofiles), which are ao2 reference-counted objects.                   *)
(*                                                                         *)
(* Pointers are small integers: 0 is NULL.  Eprofile objects are 1..       *)
(* MaxEprofiles, datastore slots are 1..MaxStores.  Two further datastore  *)
(* handles exist that do not belong to this module: OtherDs is a datastore *)
(* of another type, NoDataDs is a geoloc datastore whose data pointer is   *)
(* NULL.                                                                   *)
(*                                                                         *)
(* Touching an ao2 object after its destruction is undefined behaviour.    *)
(* The outcome is a nondeterministic choice (UBOutcomes); the variable     *)
(* uaf records that it happened and the model stops there.                 *)
(***************************************************************************)
EXTENDS Integers, Sequences, FiniteSets, TLC

\* ---- bounds ----
MaxEprofiles == 2
MaxStores == 2
\* datastores alive at the same time in the single-channel specifications
MaxLive == 1
MaxSize == 3
MaxHeld == 2

\* ---- program constants ----
GEOLOC_DS_TYPE == "geoloc_eprofiles"
VECTOR_INIT_SIZE == 2

NullStr == "NULL"
NULL == 0
OtherDs == -1
NoDataDs == -2

E == 1..MaxEprofiles
D == 1..MaxStores
Handles == D \cup {NULL, OtherDs, NoDataDs}
Ids == {NullStr, "", "a"}
EprofileIds == {"a"}
ProfileNames == {"good", "bad"}
Names == {NullStr, "", "good", "bad", "missing"}
UBOutcomes == {"badmagic", "applied"}
\* the allocation that fails during a call, if any
FailPoints == {"none", "ds", "eds", "vec", "build", "grow"}
Indexes == (-1)..MaxSize
\* values of a 32-bit int around the limits of the index range
WideIndexes == {-2147483647 - 1, -2147483647, -65537, -65536, -65535, -2, -1}
               \cup (0..(MaxSize + 1)) \cup {65535, 65536, 65537, 2147483647}
AllBadMagic == [i \in 1..MaxSize |-> "badmagic"]

VARIABLES eprofiles, held, stores, profiles, placed, last, uaf, geoloc_sorcery

vars == <<eprofiles, held, stores, profiles, placed, last, uaf, geoloc_sorcery>>

\* ---- helpers from the Asterisk core used by the datastore ----

ast_strlen_zero(s) == s = NullStr \/ s = ""

\* ao2_ref(obj, delta) on object e; ub picks the outcome when e is already destroyed
ao2_ref(eps, e, delta, ub) ==
    IF eps[e].state = "alive"
    THEN LET n == eps[e].refcount + delta
         IN [eps EXCEPT ![e].refcount = n,
                        ![e].state = IF n <= 0 THEN "destroyed" ELSE "alive"]
    ELSE IF ub = "applied"
         THEN [eps EXCEPT ![e].refcount = @ + delta]
         ELSE eps

\* an ao2 call on e touches freed memory
Dangling(eps, e) == e # NULL /\ eps[e].state # "alive"

ao2_bump(eps, e, ub) == IF e = NULL THEN eps ELSE ao2_ref(eps, e, 1, ub)

ao2_cleanup(eps, e, ub) == IF e = NULL THEN eps ELSE ao2_ref(eps, e, -1, ub)

\* lowest free object / slot
FreeEprofiles(eps) == {e \in E : eps[e].state = "free"}
NewEprofile(eps) == CHOOSE e \in FreeEprofiles(eps) : \A f \in FreeEprofiles(eps) : e <= f
FreeStores(S) == {d \in D : ~S[d].alloc}
Live(S) == Cardinality(D \ FreeStores(S))
NewStore(S) == CHOOSE d \in FreeStores(S) : \A f \in FreeStores(S) : d <= f

\* a datastore slot: alloc = the ast_datastore exists, type = info->type,
\* data = ds->data is set, vec/max/eprofiles = the vector, id = eds->id
EmptySlot == [alloc |-> FALSE, type |-> NullStr, data |-> FALSE, vec |-> FALSE, max |-> 0,
              eprofiles |-> <<>>, id |-> NullStr]

Count(vec, e) == Cardinality({i \in 1..Len(vec) : vec[i] = e})

\* ds->info->type and ds->data of a non-NULL handle
InfoType(S, h) == IF h = OtherDs THEN "other" ELSE IF h = NoDataDs THEN GEOLOC_DS_TYPE ELSE S[h].type
HasData(S, h) == IF h = OtherDs THEN TRUE ELSE IF h = NoDataDs THEN FALSE ELSE S[h].data
\* the vector behind ds->data, read as struct eprofiles_datastore
VecOf(S, h) == IF h \in D THEN S[h].eprofiles ELSE <<>>

\* mutant: the type of the datastore is not compared
InvalidDs_no_type_check(S, h) == h = NULL \/ ~HasData(S, h)

\* !ds || !ast_strings_equal(ds->info->type, GEOLOC_DS_TYPE) || !ds->data
InvalidDs(S, h) == h = NULL \/ InfoType(S, h) # GEOLOC_DS_TYPE \/ ~HasData(S, h)

\* conversion of an int to size_t (two 16-bit limbs of the low 32 bits)
ToSizeT(n) == <<(n \div 65536) % 65536, n % 65536>>
\* mutant: the index is compared as a signed number
IndexGE_signed(ix, size) == ix >= size

\* ix >= AST_VECTOR_SIZE(vec): the int is converted to the unsigned type
IndexGE(ix, size) ==
    LET a == ToSizeT(ix)
        b == ToSizeT(size)
    IN a[1] > b[1] \/ (a[1] = b[1] /\ a[2] >= b[2])

\* AST_VECTOR_RESET(&eds->eprofiles, ao2_cleanup): cleanup of each element in order
RECURSIVE VectorResetCleanup(_, _, _)
VectorResetCleanup(eps, vec, ubs) ==
    IF vec = <<>> THEN [eprofiles |-> eps, uaf |-> FALSE]
    ELSE LET r == VectorResetCleanup(ao2_cleanup(eps, Head(vec), Head(ubs)), Tail(vec), Tail(ubs))
         IN [eprofiles |-> r.eprofiles, uaf |-> r.uaf \/ Dangling(eps, Head(vec))]

\* ---- geoloc_datastore.c ----

geoloc_datastore_free(S, eps, d, ubs) ==
    LET r == VectorResetCleanup(eps, S[d].eprofiles, ubs)
    IN [stores |-> [S EXCEPT ![d].eprofiles = <<>>, ![d].vec = FALSE, ![d].max = 0,
                             ![d].data = FALSE],
        eprofiles |-> r.eprofiles, uaf |-> r.uaf]

\* ast_datastore_free(ds): calls info->destroy(ds->data) when data is set, frees ds
ast_datastore_free(S, eps, d, ubs) ==
    LET r == IF S[d].data THEN geoloc_datastore_free(S, eps, d, ubs)
             ELSE [stores |-> S, eprofiles |-> eps, uaf |-> FALSE]
    IN [stores |-> [r.stores EXCEPT ![d] = EmptySlot], eprofiles |-> r.eprofiles, uaf |-> r.uaf]

\* mutant: the empty id is not rejected
ast_geoloc_datastore_create_no_id_check(S, id, fail) ==
    IF id = NullStr
    THEN [ret |-> NULL, stores |-> S, allocs |-> 0, live |-> 0]
    ELSE IF fail = "ds"
    THEN [ret |-> NULL, stores |-> S, allocs |-> 0, live |-> 0]
    ELSE LET d == NewStore(S)
             S1 == [S EXCEPT ![d].alloc = TRUE, ![d].type = GEOLOC_DS_TYPE]
         IN IF fail = "eds"
            THEN [ret |-> NULL, stores |-> ast_datastore_free(S1, <<>>, d, <<>>).stores,
                  allocs |-> 1, live |-> 0]
            ELSE LET S2 == [S1 EXCEPT ![d].data = TRUE]
                 IN IF fail = "vec"
                    THEN [ret |-> NULL, stores |-> ast_datastore_free(S2, <<>>, d, <<>>).stores,
                          allocs |-> 2, live |-> 0]
                    ELSE [ret |-> d,
                          stores |-> [S2 EXCEPT ![d].vec = TRUE, ![d].max = VECTOR_INIT_SIZE],
                          allocs |-> 3, live |-> 3]

\* mutant: the datastore is not freed when the vector cannot be initialised
ast_geoloc_datastore_create_leak_on_vec(S, id, fail) ==
    IF ast_strlen_zero(id)
    THEN [ret |-> NULL, stores |-> S, allocs |-> 0, live |-> 0]
    ELSE IF fail = "ds"
    THEN [ret |-> NULL, stores |-> S, allocs |-> 0, live |-> 0]
    ELSE LET d == NewStore(S)
             S1 == [S EXCEPT ![d].alloc = TRUE, ![d].type = GEOLOC_DS_TYPE]
         IN IF fail = "eds"
            THEN [ret |-> NULL, stores |-> ast_datastore_free(S1, <<>>, d, <<>>).stores,
                  allocs |-> 1, live |-> 0]
            ELSE LET S2 == [S1 EXCEPT ![d].data = TRUE]
                 IN IF fail = "vec"
                    THEN [ret |-> NULL, stores |-> S2, allocs |-> 2, live |-> 2]
                    ELSE [ret |-> d,
                          stores |-> [S2 EXCEPT ![d].vec = TRUE, ![d].max = VECTOR_INIT_SIZE],
                          allocs |-> 3, live |-> 3]

\* allocs counts the allocations made by the call, live the ones it leaves allocated.
ast_geoloc_datastore_create(S, id, fail) ==
    IF ast_strlen_zero(id)
    THEN [ret |-> NULL, stores |-> S, allocs |-> 0, live |-> 0]
    ELSE IF fail = "ds"
    THEN [ret |-> NULL, stores |-> S, allocs |-> 0, live |-> 0]
    ELSE LET d == NewStore(S)
             S1 == [S EXCEPT ![d].alloc = TRUE, ![d].type = GEOLOC_DS_TYPE]
         IN IF fail = "eds"
            THEN [ret |-> NULL, stores |-> ast_datastore_free(S1, <<>>, d, <<>>).stores,
                  allocs |-> 1, live |-> 0]
            ELSE LET S2 == [S1 EXCEPT ![d].data = TRUE]
                 IN IF fail = "vec"
                    THEN [ret |-> NULL, stores |-> ast_datastore_free(S2, <<>>, d, <<>>).stores,
                          allocs |-> 2, live |-> 0]
                    ELSE [ret |-> d,
                          stores |-> [S2 EXCEPT ![d].vec = TRUE, ![d].max = VECTOR_INIT_SIZE],
                          allocs |-> 3, live |-> 3]

\* AST_VECTOR_APPEND: grows when current >= max (fail = "grow": the allocation fails)
\* (a handle outside D is another module's memory: the write is not modelled)
VectorAppend(S, d, e, fail) ==
    IF d \notin D THEN [rc |-> 0, stores |-> S]
    ELSE LET cur == Len(S[d].eprofiles)
         IN IF cur >= S[d].max /\ fail = "grow"
            THEN [rc |-> -1, stores |-> S]
            ELSE [rc |-> 0,
                  stores |-> [S EXCEPT ![d].eprofiles = Append(@, e),
                                       ![d].max = IF cur >= @ THEN (cur + 1) * 2 ELSE @]]

\* mutant: the new eprofile is stored in front of the others
ast_geoloc_datastore_add_eprofile_front(S, h, e, fail) ==
    IF InvalidDs(S, h) \/ e = NULL
    THEN [ret |-> -1, stores |-> S]
    ELSE LET r == VectorAppend(S, h, e, fail)
         IN [ret |-> r.rc,
             stores |-> IF r.rc = 0 /\ h \in D
                        THEN [r.stores EXCEPT ![h].eprofiles = <<e>> \o S[h].eprofiles]
                        ELSE r.stores]

\* mutant: a NULL eprofile is not rejected
ast_geoloc_datastore_add_eprofile_null_ok(S, h, e, fail) ==
    IF InvalidDs(S, h)
    THEN [ret |-> -1, stores |-> S]
    ELSE LET r == VectorAppend(S, h, e, fail)
         IN [ret |-> r.rc, stores |-> r.stores]

ast_geoloc_datastore_add_eprofile(S, h, e, fail) ==
    IF InvalidDs(S, h) \/ e = NULL
    THEN [ret |-> -1, stores |-> S]
    ELSE LET r == VectorAppend(S, h, e, fail)
         IN [ret |-> r.rc, stores |-> r.stores]

ast_geoloc_datastore_size(S, h) ==
    IF InvalidDs(S, h) THEN -1 ELSE Len(VecOf(S, h))

\* mutant: every eprofile of the vector gets a reference
ast_geoloc_datastore_get_eprofile_bump_all(S, eps, h, ix, ub) ==
    IF InvalidDs(S, h)
    THEN [ret |-> NULL, eprofiles |-> eps, uaf |-> FALSE, oob |-> FALSE]
    ELSE IF IndexGE(ix, Len(VecOf(S, h)))
    THEN [ret |-> NULL, eprofiles |-> eps, uaf |-> FALSE, oob |-> FALSE]
    ELSE LET vec == VecOf(S, h)
             inside == (ix + 1) \in DOMAIN vec
             e == IF inside THEN vec[ix + 1] ELSE NULL
         IN [ret |-> e,
             eprofiles |-> [f \in E |-> IF Count(vec, f) > 0 /\ eps[f].state = "alive"
                                        THEN [eps[f] EXCEPT !.refcount = @ + 1] ELSE eps[f]],
             uaf |-> Dangling(eps, e), oob |-> ~inside]

\* oob: AST_VECTOR_GET read a slot outside the elements of the vector (the
\* value read there is taken as NULL)
ast_geoloc_datastore_get_eprofile(S, eps, h, ix, ub) ==
    IF InvalidDs(S, h)
    THEN [ret |-> NULL, eprofiles |-> eps, uaf |-> FALSE, oob |-> FALSE]
    ELSE IF IndexGE(ix, Len(VecOf(S, h)))
    THEN [ret |-> NULL, eprofiles |-> eps, uaf |-> FALSE, oob |-> FALSE]
    ELSE LET vec == VecOf(S, h)
             inside == (ix + 1) \in DOMAIN vec
             e == IF inside THEN vec[ix + 1] ELSE NULL
         IN [ret |-> e, eprofiles |-> ao2_bump(eps, e, ub), uaf |-> Dangling(eps, e),
             oob |-> ~inside]

\* reading eprofile->id; ghost names what a read of freed memory yields
EprofileId(eps, e, ghost) == IF Dangling(eps, e) THEN ghost ELSE eps[e].id

\* mutant: the add step is left out
ast_geoloc_datastore_create_from_eprofile_no_add(S, eps, e, fail, ghost) ==
    IF e = NULL
    THEN [ret |-> NULL, stores |-> S, eprofiles |-> eps, uaf |-> FALSE, allocs |-> 0]
    ELSE LET c == ast_geoloc_datastore_create(S, EprofileId(eps, e, ghost), fail)
         IN IF c.ret = NULL
            THEN [ret |-> NULL, stores |-> c.stores, eprofiles |-> eps, uaf |-> Dangling(eps, e),
                  allocs |-> c.allocs]
            ELSE LET a == [ret |-> 0, stores |-> c.stores]
                 IN IF a.ret # 0
                    THEN LET f == ast_datastore_free(a.stores, eps, c.ret, AllBadMagic)
                         IN [ret |-> NULL, stores |-> f.stores, eprofiles |-> f.eprofiles,
                             uaf |-> Dangling(eps, e) \/ f.uaf, allocs |-> c.allocs]
                    ELSE [ret |-> c.ret, stores |-> a.stores, eprofiles |-> eps,
                          uaf |-> Dangling(eps, e), allocs |-> c.allocs]

ast_geoloc_datastore_create_from_eprofile(S, eps, e, fail, ghost) ==
    IF e = NULL
    THEN [ret |-> NULL, stores |-> S, eprofiles |-> eps, uaf |-> FALSE, allocs |-> 0]
    ELSE LET c == ast_geoloc_datastore_create(S, EprofileId(eps, e, ghost), fail)
         IN IF c.ret = NULL
            THEN [ret |-> NULL, stores |-> c.stores, eprofiles |-> eps, uaf |-> Dangling(eps, e),
                  allocs |-> c.allocs]
            ELSE LET a == ast_geoloc_datastore_add_eprofile(c.stores, c.ret, e, fail)
                 IN IF a.ret # 0
                    THEN LET f == ast_datastore_free(a.stores, eps, c.ret, AllBadMagic)
                         IN [ret |-> NULL, stores |-> f.stores, eprofiles |-> f.eprofiles,
                             uaf |-> Dangling(eps, e) \/ f.uaf, allocs |-> c.allocs]
                    ELSE [ret |-> c.ret, stores |-> a.stores, eprofiles |-> eps,
                          uaf |-> Dangling(eps, e), allocs |-> c.allocs]

\* ast_sorcery_retrieve_by_id(geoloc_sorcery, "profile", name): a new reference or NULL
SorceryRetrieve(P, name) ==
    IF name \in ProfileNames
    THEN [found |-> TRUE, profiles |-> [P EXCEPT ![name] = @ + 1]]
    ELSE [found |-> FALSE, profiles |-> P]

\* ast_geoloc_eprofile_create_from_profile(profile): a new eprofile with one
\* reference, or NULL when the location fails validation or an allocation fails
EprofileCreateFromProfile(eps, name, fail) ==
    IF name = "bad" \/ fail = "build"
    THEN [ret |-> NULL, eprofiles |-> eps]
    ELSE LET e == NewEprofile(eps)
         IN [ret |-> e,
             eprofiles |-> [eps EXCEPT ![e] = [state |-> "alive", refcount |-> 1, id |-> name]]]

\* mutant: the datastore is not freed when the eprofile cannot be built
ast_geoloc_datastore_create_from_profile_name_leak_store(S, eps, P, name, fail) ==
    IF ast_strlen_zero(name)
    THEN [ret |-> NULL, stores |-> S, eprofiles |-> eps, profiles |-> P, stage |-> "empty",
          built |-> NULL, profRel |-> 0, epRel |-> 0,
          allocs |-> 0]
    ELSE LET p == SorceryRetrieve(P, name)
         IN IF ~p.found
            THEN [ret |-> NULL, stores |-> S, eprofiles |-> eps, profiles |-> P,
                  stage |-> "notfound", built |-> NULL, profRel |-> 0, epRel |-> 0,
                  allocs |-> 0]
            ELSE LET c == ast_geoloc_datastore_create(S, name, fail)
                     P1 == [p.profiles EXCEPT ![name] = @ - 1]
                 IN IF c.ret = NULL
                    THEN [ret |-> NULL, stores |-> c.stores, eprofiles |-> eps, profiles |-> P1,
                          stage |-> "ds", built |-> NULL, profRel |-> 1, epRel |-> 0,
                          allocs |-> c.allocs]
                    ELSE LET b == EprofileCreateFromProfile(eps, name, fail)
                         IN IF b.ret = NULL
                            THEN [ret |-> NULL,
                                  stores |-> c.stores,
                                  eprofiles |-> eps, profiles |-> P1, stage |-> "build",
                                  built |-> NULL, profRel |-> 1, epRel |-> 0,
                                  allocs |-> c.allocs]
                            ELSE LET a == ast_geoloc_datastore_add_eprofile(c.stores, c.ret, b.ret, fail)
                                     eps1 == ao2_ref(b.eprofiles, b.ret, -1, "badmagic")
                                 IN IF a.ret # 0
                                    THEN LET f == ast_datastore_free(a.stores, eps1, c.ret, AllBadMagic)
                                         IN [ret |-> NULL, stores |-> f.stores,
                                             eprofiles |-> f.eprofiles, profiles |-> P1,
                                             stage |-> "add", built |-> b.ret,
                                             profRel |-> 1, epRel |-> 1,
                                             allocs |-> c.allocs]
                                    ELSE [ret |-> c.ret, stores |-> a.stores, eprofiles |-> eps1,
                                          profiles |-> P1, stage |-> "ok", built |-> b.ret,
                                          profRel |-> 1, epRel |-> 1,
                                          allocs |-> c.allocs]

\* mutant: the profile is not released when the datastore cannot be allocated
ast_geoloc_datastore_create_from_profile_name_leak_profile(S, eps, P, name, fail) ==
    IF ast_strlen_zero(name)
    THEN [ret |-> NULL, stores |-> S, eprofiles |-> eps, profiles |-> P, stage |-> "empty",
          built |-> NULL, profRel |-> 0, epRel |-> 0,
          allocs |-> 0]
    ELSE LET p == SorceryRetrieve(P, name)
         IN IF ~p.found
            THEN [ret |-> NULL, stores |-> S, eprofiles |-> eps, profiles |-> P,
                  stage |-> "notfound", built |-> NULL, profRel |-> 0, epRel |-> 0,
                  allocs |-> 0]
            ELSE LET c == ast_geoloc_datastore_create(S, name, fail)
                     P1 == [p.profiles EXCEPT ![name] = @ - 1]
                 IN IF c.ret = NULL
                    THEN [ret |-> NULL, stores |-> c.stores, eprofiles |-> eps,
                          profiles |-> p.profiles,
                          stage |-> "ds", built |-> NULL, profRel |-> 0, epRel |-> 0,
                          allocs |-> c.allocs]
                    ELSE LET b == EprofileCreateFromProfile(eps, name, fail)
                         IN IF b.ret = NULL
                            THEN [ret |-> NULL,
                                  stores |-> ast_datastore_free(c.stores, eps, c.ret, AllBadMagic).stores,
                                  eprofiles |-> eps, profiles |-> P1, stage |-> "build",
                                  built |-> NULL, profRel |-> 1, epRel |-> 0,
                                  allocs |-> c.allocs]
                            ELSE LET a == ast_geoloc_datastore_add_eprofile(c.stores, c.ret, b.ret, fail)
                                     eps1 == ao2_ref(b.eprofiles, b.ret, -1, "badmagic")
                                 IN IF a.ret # 0
                                    THEN LET f == ast_datastore_free(a.stores, eps1, c.ret, AllBadMagic)
                                         IN [ret |-> NULL, stores |-> f.stores,
                                             eprofiles |-> f.eprofiles, profiles |-> P1,
                                             stage |-> "add", built |-> b.ret,
                                             profRel |-> 1, epRel |-> 1,
                                             allocs |-> c.allocs]
                                    ELSE [ret |-> c.ret, stores |-> a.stores, eprofiles |-> eps1,
                                          profiles |-> P1, stage |-> "ok", built |-> b.ret,
                                          profRel |-> 1, epRel |-> 1,
                                          allocs |-> c.allocs]

\* mutant: a profile that is not found is not reported before the datastore is created
ast_geoloc_datastore_create_from_profile_name_no_lookup_check(S, eps, P, name, fail) ==
    IF ast_strlen_zero(name)
    THEN [ret |-> NULL, stores |-> S, eprofiles |-> eps, profiles |-> P, stage |-> "empty",
          built |-> NULL, profRel |-> 0, epRel |-> 0,
          allocs |-> 0]
    ELSE LET p == SorceryRetrieve(P, name)
         IN IF ~p.found
            THEN LET c == ast_geoloc_datastore_create(S, name, fail)
                 IN [ret |-> NULL,
                     stores |-> IF c.ret = NULL THEN c.stores
                                ELSE ast_datastore_free(c.stores, eps, c.ret, AllBadMagic).stores,
                     eprofiles |-> eps, profiles |-> P, stage |-> "build", built |-> NULL,
                     profRel |-> 0, epRel |-> 0, allocs |-> c.allocs]
            ELSE LET c == ast_geoloc_datastore_create(S, name, fail)
                     P1 == [p.profiles EXCEPT ![name] = @ - 1]
                 IN IF c.ret = NULL
                    THEN [ret |-> NULL, stores |-> c.stores, eprofiles |-> eps, profiles |-> P1,
                          stage |-> "ds", built |-> NULL, profRel |-> 1, epRel |-> 0,
                          allocs |-> c.allocs]
                    ELSE LET b == EprofileCreateFromProfile(eps, name, fail)
                         IN IF b.ret = NULL
                            THEN [ret |-> NULL,
                                  stores |-> ast_datastore_free(c.stores, eps, c.ret, AllBadMagic).stores,
                                  eprofiles |-> eps, profiles |-> P1, stage |-> "build",
                                  built |-> NULL, profRel |-> 1, epRel |-> 0,
                                  allocs |-> c.allocs]
                            ELSE LET a == ast_geoloc_datastore_add_eprofile(c.stores, c.ret, b.ret, fail)
                                     eps1 == ao2_ref(b.eprofiles, b.ret, -1, "badmagic")
                                 IN IF a.ret # 0
                                    THEN LET f == ast_datastore_free(a.stores, eps1, c.ret, AllBadMagic)
                                         IN [ret |-> NULL, stores |-> f.stores,
                                             eprofiles |-> f.eprofiles, profiles |-> P1,
                                             stage |-> "add", built |-> b.ret,
                                             profRel |-> 1, epRel |-> 1,
                                             allocs |-> c.allocs]
                                    ELSE [ret |-> c.ret, stores |-> a.stores, eprofiles |-> eps1,
                                          profiles |-> P1, stage |-> "ok", built |-> b.ret,
                                          profRel |-> 1, epRel |-> 1,
                                          allocs |-> c.allocs]

\* profRel / epRel count the ao2_ref(.., -1) calls the function makes on the
\* profile and on the eprofile it built; stage names the exit path.
ast_geoloc_datastore_create_from_profile_name(S, eps, P, name, fail) ==
    IF ast_strlen_zero(name)
    THEN [ret |-> NULL, stores |-> S, eprofiles |-> eps, profiles |-> P, stage |-> "empty",
          built |-> NULL, profRel |-> 0, epRel |-> 0,
          allocs |-> 0]
    ELSE LET p == SorceryRetrieve(P, name)
         IN IF ~p.found
            THEN [ret |-> NULL, stores |-> S, eprofiles |-> eps, profiles |-> P,
                  stage |-> "notfound", built |-> NULL, profRel |-> 0, epRel |-> 0,
                  allocs |-> 0]
            ELSE LET c == ast_geoloc_datastore_create(S, name, fail)
                     P1 == [p.profiles EXCEPT ![name] = @ - 1]
                 IN IF c.ret = NULL
                    THEN [ret |-> NULL, stores |-> c.stores, eprofiles |-> eps, profiles |-> P1,
                          stage |-> "ds", built |-> NULL, profRel |-> 1, epRel |-> 0,
                          allocs |-> c.allocs]
                    ELSE LET b == EprofileCreateFromProfile(eps, name, fail)
                         IN IF b.ret = NULL
                            THEN [ret |-> NULL,
                                  stores |-> ast_datastore_free(c.stores, eps, c.ret, AllBadMagic).stores,
                                  eprofiles |-> eps, profiles |-> P1, stage |-> "build",
                                  built |-> NULL, profRel |-> 1, epRel |-> 0,
                                  allocs |-> c.allocs]
                            ELSE LET a == ast_geoloc_datastore_add_eprofile(c.stores, c.ret, b.ret, fail)
                                     eps1 == ao2_ref(b.eprofiles, b.ret, -1, "badmagic")
                                 IN IF a.ret # 0
                                    THEN LET f == ast_datastore_free(a.stores, eps1, c.ret, AllBadMagic)
                                         IN [ret |-> NULL, stores |-> f.stores,
                                             eprofiles |-> f.eprofiles, profiles |-> P1,
                                             stage |-> "add", built |-> b.ret,
                                             profRel |-> 1, epRel |-> 1,
                                             allocs |-> c.allocs]
                                    ELSE [ret |-> c.ret, stores |-> a.stores, eprofiles |-> eps1,
                                          profiles |-> P1, stage |-> "ok", built |-> b.ret,
                                          profRel |-> 1, epRel |-> 1,
                                          allocs |-> c.allocs]

\* The global geoloc_sorcery is modelled by g: handle = the pointer is not
\* NULL, refs = the references this file has acquired and not yet released.

\* geoloc_get_sorcery(): the module's sorcery instance with one new reference
geoloc_get_sorcery(g) == [handle |-> TRUE, refs |-> g.refs + 1]

\* ast_sorcery_unref(sorcery)
ast_sorcery_unref(g) == [g EXCEPT !.refs = @ - 1]

geoloc_channel_unload(g) == IF g.handle THEN ast_sorcery_unref(g) ELSE g

geoloc_channel_load(g) == geoloc_get_sorcery(g)

geoloc_channel_reload(g) == g

\* how line 171 finds the handle it passes to ast_sorcery_retrieve_by_id
SorceryUse(g, name) ==
    IF ast_strlen_zero(name) THEN "unused"
    ELSE IF ~g.handle THEN "null"
    ELSE IF g.refs <= 0 THEN "released"
    ELSE "valid"

\* ---- declared in res_geolocation.h, defined outside this file ----

InsertAt(vec, pos, e) == SubSeq(vec, 1, pos) \o <<e>> \o SubSeq(vec, pos + 1, Len(vec))
RemoveAt(vec, pos) == SubSeq(vec, 1, pos) \o SubSeq(vec, pos + 2, Len(vec))

\* insert at index, entries at >= index move one position later; an index
\* beyond the size appends; the datastore takes its own reference
ast_geoloc_datastore_insert_eprofile(S, eps, h, e, index, fail, ub) ==
    IF InvalidDs(S, h) \/ e = NULL
    THEN [ret |-> -1, stores |-> S, eprofiles |-> eps, uaf |-> FALSE]
    ELSE LET cur == Len(S[h].eprofiles)
             pos == IF index > cur THEN cur ELSE index
         IN IF cur >= S[h].max /\ fail = "grow"
            THEN [ret |-> -1, stores |-> S, eprofiles |-> eps, uaf |-> FALSE]
            ELSE [ret |-> cur + 1,
                  stores |-> [S EXCEPT ![h].eprofiles = InsertAt(@, pos, e),
                                       ![h].max = IF cur >= @ THEN (cur + 1) * 2 ELSE @],
                  eprofiles |-> ao2_bump(eps, e, ub), uaf |-> Dangling(eps, e)]

\* remove the entry at ix and release its reference; later entries move earlier
ast_geoloc_datastore_delete_eprofile(S, eps, h, ix, ub) ==
    IF InvalidDs(S, h)
    THEN [ret |-> -1, stores |-> S, eprofiles |-> eps, uaf |-> FALSE]
    ELSE IF ix < 0 \/ ix >= Len(S[h].eprofiles)
    THEN [ret |-> -1, stores |-> S, eprofiles |-> eps, uaf |-> FALSE]
    ELSE LET e == S[h].eprofiles[ix + 1]
         IN [ret |-> 0,
             stores |-> [S EXCEPT ![h].eprofiles = RemoveAt(@, ix)],
             eprofiles |-> ao2_cleanup(eps, e, ub), uaf |-> Dangling(eps, e)]

\* ---- state ----

\* eprofiles: the ao2 objects; held[e]: references callers hold on e;
\* stores: the datastore slots; profiles[n]: reference count of the sorcery
\* profile named n; last: the last call and what it returned; geoloc_sorcery:
\* the global of line 28.  Init is the state of a loaded module.
\* placed[d] is a history variable: what the callers of datastore d have placed
\* at each logical position (an add at the end, an insert at its clamped index,
\* a delete removes the position); its length is the number of successful adds
\* and inserts minus the number of successful deletes.
TypeOK ==
    /\ eprofiles \in [E -> [state : {"free", "alive", "destroyed"}, refcount : Int,
                            id : EprofileIds \cup ProfileNames \cup {NullStr}]]
    /\ held \in [E -> 0..MaxHeld]
    /\ \A d \in D : Len(stores[d].eprofiles) <= MaxSize
    /\ uaf \in BOOLEAN
    /\ geoloc_sorcery \in [handle : BOOLEAN, refs : Int]

Init ==
    /\ eprofiles = [e \in E |-> [state |-> "free", refcount |-> 0, id |-> NullStr]]
    /\ held = [e \in E |-> 0]
    /\ stores = [d \in D |-> EmptySlot]
    /\ profiles = [n \in ProfileNames |-> 1]
    /\ placed = [d \in D |-> <<>>]
    /\ last = [op |-> "init"]
    /\ uaf = FALSE
    /\ geoloc_sorcery = [handle |-> TRUE, refs |-> 1]

\* the outcomes an ao2 call on e can have
Outcomes(e) == IF Dangling(eprofiles, e) THEN UBOutcomes ELSE {"badmagic"}
OutcomesVec(vec) == {ubs \in [1..MaxSize -> UBOutcomes] :
                        \A i \in 1..MaxSize :
                            \/ i <= Len(vec) /\ (ubs[i] \in Outcomes(vec[i]) \/ Count(vec, vec[i]) > 1)
                            \/ ubs[i] = "badmagic"}

\* ---- actions: one per call a channel thread can make ----

\* ast_geoloc_eprofile_alloc(name): the caller receives the only reference
EprofileAlloc(id) ==
    /\ ~uaf
    /\ FreeEprofiles(eprofiles) # {}
    /\ LET e == NewEprofile(eprofiles)
       IN /\ eprofiles' = [eprofiles EXCEPT ![e] = [state |-> "alive", refcount |-> 1, id |-> id]]
          /\ held' = [held EXCEPT ![e] = 1]
          /\ last' = [op |-> "eprofile_alloc", ret |-> e]
    /\ UNCHANGED <<stores, profiles, placed, uaf, geoloc_sorcery>>

\* the caller releases one reference it holds: ao2_ref(eprofile, -1)
Release(e) ==
    /\ ~uaf
    /\ held[e] > 0
    /\ \E ub \in Outcomes(e) : eprofiles' = ao2_ref(eprofiles, e, -1, ub)
    /\ held' = [held EXCEPT ![e] = @ - 1]
    /\ uaf' = Dangling(eprofiles, e)
    /\ last' = [op |-> "release", ret |-> e]
    /\ UNCHANGED <<stores, profiles, placed, geoloc_sorcery>>

Create(id, fail) ==
    /\ ~uaf
    /\ FreeStores(stores) # {}
    /\ LET r == ast_geoloc_datastore_create(stores, id, fail)
       IN /\ stores' = r.stores
          /\ last' = [op |-> "create", ret |-> r.ret, allocs |-> r.allocs, live |-> r.live]
    /\ UNCHANGED <<eprofiles, held, profiles, placed, uaf, geoloc_sorcery>>

\* the eprofile argument is NULL or one the caller holds a reference to
AddEprofile(h, e, fail) ==
    /\ ~uaf
    /\ h \in D => (stores[h].alloc /\ Len(stores[h].eprofiles) < MaxSize)
    /\ e # NULL => held[e] > 0
    /\ LET r == ast_geoloc_datastore_add_eprofile(stores, h, e, fail)
       IN /\ stores' = r.stores
          /\ placed' = IF r.ret # -1 /\ h \in D THEN [placed EXCEPT ![h] = Append(@, e)] ELSE placed
          /\ last' = [op |-> "add", ret |-> r.ret, valid |-> h \in D]
    /\ UNCHANGED <<eprofiles, held, profiles, uaf, geoloc_sorcery>>

Size(h) ==
    /\ ~uaf
    /\ h \in D => stores[h].alloc
    /\ last' = [op |-> "size", ret |-> ast_geoloc_datastore_size(stores, h), valid |-> h \in D]
    /\ UNCHANGED <<eprofiles, held, stores, profiles, placed, uaf, geoloc_sorcery>>

GetEprofile(h, ix, ub) ==
    /\ ~uaf
    /\ h \in D => stores[h].alloc
    /\ LET r == ast_geoloc_datastore_get_eprofile(stores, eprofiles, h, ix, ub)
       IN /\ r.ret # NULL => (held[r.ret] < MaxHeld /\ ub \in Outcomes(r.ret))
          /\ r.ret = NULL => ub = "badmagic"
          /\ eprofiles' = r.eprofiles
          /\ held' = IF r.ret # NULL THEN [held EXCEPT ![r.ret] = @ + 1] ELSE held
          /\ uaf' = r.uaf
          /\ last' = [op |-> "get", ret |-> r.ret, valid |-> h \in D, ix |-> ix]
    /\ UNCHANGED <<stores, profiles, placed, geoloc_sorcery>>

\* the eprofile argument is NULL or one the caller holds a reference to
CreateFromEprofile(e, fail, ghost) ==
    /\ ~uaf
    /\ FreeStores(stores) # {}
    /\ e # NULL => held[e] > 0
    /\ ghost \in (IF Dangling(eprofiles, e) THEN Ids ELSE {NullStr})
    /\ LET r == ast_geoloc_datastore_create_from_eprofile(stores, eprofiles, e, fail, ghost)
       IN /\ stores' = r.stores
          /\ eprofiles' = r.eprofiles
          /\ uaf' = r.uaf
          /\ placed' = IF r.ret # NULL THEN [placed EXCEPT ![r.ret] = <<e>>] ELSE placed
          /\ last' = [op |-> "create_from_eprofile", ret |-> r.ret, ep |-> e,
                      preRef |-> IF e = NULL THEN 0 ELSE eprofiles[e].refcount,
                      allocs |-> r.allocs]
    /\ UNCHANGED <<held, profiles, geoloc_sorcery>>

\* a lookup through a NULL or released sorcery handle is undefined: it finds
\* what a valid handle would find, or nothing
CreateFromProfileName(name, fail) ==
    /\ ~uaf
    /\ FreeStores(stores) # {}
    /\ FreeEprofiles(eprofiles) # {}
    /\ \E seen \in (IF SorceryUse(geoloc_sorcery, name) \in {"null", "released"}
                     THEN {name, "missing"} ELSE {name}) :
       LET r == ast_geoloc_datastore_create_from_profile_name(stores, eprofiles, profiles, seen, fail)
       IN /\ stores' = r.stores
          /\ eprofiles' = r.eprofiles
          /\ profiles' = r.profiles
          /\ placed' = IF r.ret # NULL THEN [placed EXCEPT ![r.ret] = <<r.built>>] ELSE placed
          /\ last' = [op |-> "create_from_profile_name", ret |-> r.ret, stage |-> r.stage,
                      built |-> r.built, profRel |-> r.profRel, epRel |-> r.epRel,
                      sorcery |-> SorceryUse(geoloc_sorcery, name)]
    /\ uaf' = (SorceryUse(geoloc_sorcery, name) \in {"null", "released"})
    /\ UNCHANGED <<held, geoloc_sorcery>>

\* the eprofile argument is NULL or one the caller holds a reference to
InsertEprofile(h, e, index, fail, ub) ==
    /\ ~uaf
    /\ h \in D => (stores[h].alloc /\ Len(stores[h].eprofiles) < MaxSize)
    /\ e # NULL => held[e] > 0
    /\ ub \in (IF e = NULL \/ InvalidDs(stores, h) THEN {"badmagic"} ELSE Outcomes(e))
    /\ LET r == ast_geoloc_datastore_insert_eprofile(stores, eprofiles, h, e, index, fail, ub)
       IN /\ stores' = r.stores
          /\ eprofiles' = r.eprofiles
          /\ uaf' = r.uaf
          /\ placed' = IF r.ret # -1
                       THEN [placed EXCEPT ![h] = InsertAt(@, IF index > Len(@) THEN Len(@) ELSE index, e)]
                       ELSE placed
          /\ last' = [op |-> "insert", ret |-> r.ret, valid |-> h \in D]
    /\ UNCHANGED <<held, profiles, geoloc_sorcery>>

DeleteEprofile(h, ix, ub) ==
    /\ ~uaf
    /\ h \in D => stores[h].alloc
    /\ LET r == ast_geoloc_datastore_delete_eprofile(stores, eprofiles, h, ix, ub)
       IN /\ ub \in (IF r.ret = 0 THEN Outcomes(stores[h].eprofiles[ix + 1]) ELSE {"badmagic"})
          /\ stores' = r.stores
          /\ eprofiles' = r.eprofiles
          /\ uaf' = r.uaf
          /\ placed' = IF r.ret # -1 THEN [placed EXCEPT ![h] = RemoveAt(@, ix)] ELSE placed
          /\ last' = [op |-> "delete", ret |-> r.ret, valid |-> h \in D]
    /\ UNCHANGED <<held, profiles, geoloc_sorcery>>

\* the channel is destroyed: ast_datastore_free(ds) on a datastore it owns
DatastoreFree(d) ==
    /\ ~uaf
    /\ stores[d].alloc
    /\ \E ubs \in OutcomesVec(stores[d].eprofiles) :
       LET r == ast_datastore_free(stores, eprofiles, d, ubs)
       IN /\ stores' = r.stores
          /\ eprofiles' = r.eprofiles
          /\ uaf' = r.uaf
          /\ placed' = [placed EXCEPT ![d] = <<>>]
          /\ last' = [op |-> "datastore_free", ret |-> d]
    /\ UNCHANGED <<held, profiles, geoloc_sorcery>>

\* the module is loaded; the cap keeps the reference count bounded
Load ==
    /\ ~uaf
    /\ geoloc_sorcery.refs < MaxHeld
    /\ geoloc_sorcery' = geoloc_channel_load(geoloc_sorcery)
    /\ last' = [op |-> "load", ret |-> 0]
    /\ UNCHANGED <<eprofiles, held, stores, profiles, placed, uaf>>

\* releasing a reference this file does not hold is undefined
Unload ==
    /\ ~uaf
    /\ geoloc_sorcery' = geoloc_channel_unload(geoloc_sorcery)
    /\ uaf' = (geoloc_sorcery.handle /\ geoloc_sorcery.refs <= 0)
    /\ last' = [op |-> "unload", ret |-> 0]
    /\ UNCHANGED <<eprofiles, held, stores, profiles, placed>>

Reload ==
    /\ ~uaf
    /\ geoloc_sorcery' = geoloc_channel_reload(geoloc_sorcery)
    /\ last' = [op |-> "reload", ret |-> 0]
    /\ UNCHANGED <<eprofiles, held, stores, profiles, placed, uaf>>

Next ==
    \/ \E id \in EprofileIds : EprofileAlloc(id)
    \/ \E e \in E : Release(e)
    \/ \E id \in Ids, fail \in FailPoints : Live(stores) < MaxLive /\ Create(id, fail)
    \/ \E h \in Handles, e \in E \cup {NULL}, fail \in {"none", "grow"} : AddEprofile(h, e, fail)
    \/ \E h \in Handles : Size(h)
    \/ \E h \in Handles, ix \in Indexes, ub \in UBOutcomes : GetEprofile(h, ix, ub)
    \/ \E e \in E \cup {NULL}, fail \in FailPoints, ghost \in Ids :
          Live(stores) < MaxLive /\ CreateFromEprofile(e, fail, ghost)
    \/ \E name \in Names, fail \in FailPoints :
          Live(stores) < MaxLive /\ CreateFromProfileName(name, fail)
    \/ \E d \in D : DatastoreFree(d)

Spec == Init /\ [][Next]_vars

\* The calls on one channel's datastore (slot 1), with the positional insert
\* and delete that res_geolocation.h declares.
NextSeq ==
    \/ \E id \in EprofileIds : EprofileAlloc(id)
    \/ \E id \in Ids : ~stores[1].alloc /\ Create(id, "none")
    \/ \E e \in E, fail \in {"none", "grow"} : AddEprofile(1, e, fail)
    \/ Size(1)
    \/ DatastoreFree(1)
    \/ \E h \in {1, NULL}, e \in E \cup {NULL}, index \in 0..MaxSize, fail \in {"none", "grow"},
          ub \in UBOutcomes : InsertEprofile(h, e, index, fail, ub)
    \/ \E h \in {1, NULL}, ix \in Indexes, ub \in UBOutcomes : DeleteEprofile(h, ix, ub)

SpecSeq == Init /\ [][NextSeq]_vars

\* The calls that create and destroy datastores, and the calls made with a
\* handle that is not a geoloc datastore.
NextLife ==
    \/ \E id \in EprofileIds : EprofileAlloc(id)
    \/ \E e \in E : Release(e)
    \/ \E id \in Ids, fail \in FailPoints : Live(stores) < MaxLive /\ Create(id, fail)
    \/ \E e \in E \cup {NULL}, fail \in FailPoints, ghost \in Ids :
          Live(stores) < MaxLive /\ CreateFromEprofile(e, fail, ghost)
    \/ \E name \in Names, fail \in FailPoints :
          Live(stores) < MaxLive /\ CreateFromProfileName(name, fail)
    \/ \E d \in D : DatastoreFree(d)
    \/ \E h \in {NULL, OtherDs, NoDataDs}, e \in E \cup {NULL}, fail \in {"none", "grow"} :
          AddEprofile(h, e, fail)
    \/ \E h \in {NULL, OtherDs, NoDataDs} : Size(h)
    \/ \E h \in {NULL, OtherDs, NoDataDs}, ix \in Indexes, ub \in UBOutcomes : GetEprofile(h, ix, ub)

SpecLife == Init /\ [][NextLife]_vars

\* The reads of one channel on its datastore (slot 1) while the vector is
\* within its initial capacity.
NextVec ==
    \/ \E id \in EprofileIds : EprofileAlloc(id)
    \/ \E e \in E : Release(e)
    \/ \E id \in Ids : ~stores[1].alloc /\ Create(id, "none")
    \/ \E e \in E : Len(stores[1].eprofiles) < VECTOR_INIT_SIZE /\ AddEprofile(1, e, "none")
    \/ Size(1)
    \/ \E ix \in Indexes, ub \in UBOutcomes : GetEprofile(1, ix, ub)
    \/ DatastoreFree(1)

SpecVec == Init /\ [][NextVec]_vars

\* The adds of one channel to its datastore (slot 1), with a NULL eprofile and
\* with a vector that cannot grow.
NextAdd ==
    \/ \E id \in EprofileIds : EprofileAlloc(id)
    \/ \E e \in E : Release(e)
    \/ \E id \in Ids : ~stores[1].alloc /\ Create(id, "none")
    \/ \E e \in E \cup {NULL}, fail \in {"none", "grow"} : AddEprofile(1, e, fail)
    \/ Size(1)
    \/ DatastoreFree(1)

SpecAdd == Init /\ [][NextAdd]_vars

\* Two channels share one eprofile: its creator adds eprofile 1 to the
\* datastores 1 and 2 (Sharing), then the channel threads fetch and release it
\* and destroy their datastores in any order.
Sharing == last.op \in {"init", "eprofile_alloc", "create", "add"}
Shared == \A d \in {1, 2} : stores[d].alloc /\ stores[d].eprofiles = <<1>>

NextShare ==
    \/ Sharing /\ FreeEprofiles(eprofiles) = E /\ EprofileAlloc("a")
    \/ \E id \in Ids, fail \in FailPoints : Sharing /\ Create(id, fail)
    \/ \E d \in {1, 2}, fail \in {"none", "grow"} :
          Sharing /\ stores[d].eprofiles = <<>> /\ AddEprofile(d, 1, fail)
    \/ \E h \in Handles : (Shared \/ ~Sharing) /\ Size(h)
    \/ \E h \in Handles, ix \in Indexes, ub \in UBOutcomes :
          (Shared \/ ~Sharing) /\ GetEprofile(h, ix, ub)
    \/ (Shared \/ ~Sharing) /\ Release(1)
    \/ \E d \in {1, 2} : (Shared \/ ~Sharing) /\ DatastoreFree(d)

SpecShare == Init /\ [][NextShare]_vars

\* The module hooks, from the state before the first load (the global is
\* NULL), with the call that uses the global.
InitHooks ==
    /\ eprofiles = [e \in E |-> [state |-> "free", refcount |-> 0, id |-> NullStr]]
    /\ held = [e \in E |-> 0]
    /\ stores = [d \in D |-> EmptySlot]
    /\ profiles = [n \in ProfileNames |-> 1]
    /\ placed = [d \in D |-> <<>>]
    /\ last = [op |-> "init"]
    /\ uaf = FALSE
    /\ geoloc_sorcery = [handle |-> FALSE, refs |-> 0]

NextHooks ==
    \/ Load
    \/ Unload
    \/ Reload
    \/ \E name \in Names, fail \in FailPoints :
          Live(stores) < MaxLive /\ CreateFromProfileName(name, fail)
    \/ \E id \in EprofileIds : EprofileAlloc(id)
    \/ \E e \in E : Release(e)
    \/ \E e \in E, fail \in FailPoints :
          Live(stores) < MaxLive /\ CreateFromEprofile(e, fail, NullStr)
    \/ \E d \in D : DatastoreFree(d)

SpecHooks == InitHooks /\ [][NextHooks]_vars

\* ---- properties ----

\* C1: a successful add_eprofile appends the eprofile at the end and returns
\* the new number of eprofiles (old size + 1); it returns -1 only when it
\* failed, that is when nothing was added.
C1_AddReturnsNewSize ==
    [][last'.op = "add" =>
       \A h \in Handles, e \in E \cup {NULL}, fail \in {"none", "grow"} :
         AddEprofile(h, e, fail) =>
            IF last'.ret # -1
            THEN /\ h \in D
                 /\ stores'[h].eprofiles = Append(stores[h].eprofiles, e)
                 /\ last'.ret = Len(stores[h].eprofiles) + 1
            ELSE stores' = stores]_vars

\* C2: while a datastore exists every eprofile it contains is alive with a
\* reference count of at least 1; in particular after a successful
\* create_from_profile_name the datastore has size 1 and its entry 0 is alive.
C2_MembersAlive ==
    /\ \A d \in D : stores[d].alloc =>
          \A i \in 1..Len(stores[d].eprofiles) :
             /\ eprofiles[stores[d].eprofiles[i]].state = "alive"
             /\ eprofiles[stores[d].eprofiles[i]].refcount >= 1
    /\ (last.op = "create_from_profile_name" /\ last.ret # NULL) =>
          /\ ast_geoloc_datastore_size(stores, last.ret) = 1
          /\ eprofiles[stores[last.ret].eprofiles[1]].state = "alive"

\* C3: destroying a datastore releases only references the datastore acquired:
\* when create_from_eprofile(ep) is followed by the destruction of that
\* datastore, ep is alive with the reference count it had before
\* create_from_eprofile, and no release hit a destroyed object.
C3_FreeKeepsCallerReference ==
    [][\A d \in D :
         (DatastoreFree(d) /\ last.op = "create_from_eprofile" /\ last.ret = d) =>
            /\ eprofiles'[last.ep].state = "alive"
            /\ eprofiles'[last.ep].refcount = last.preRef
            /\ ~uaf']_vars

\* C4: the size of a datastore is the number of successful adds and inserts
\* minus the number of successful deletes, and get_eprofile(i) returns, for
\* every i in 0..size-1, the eprofile last placed at logical position i.
C4_SizeAndOrder ==
    \A d \in D : stores[d].alloc =>
       /\ ast_geoloc_datastore_size(stores, d) = Len(placed[d])
       /\ \A i \in 0..(Len(placed[d]) - 1) :
             ast_geoloc_datastore_get_eprofile(stores, eprofiles, d, i, "badmagic").ret
                = placed[d][i + 1]

\* a delete has moved a later eprofile to an earlier position of a datastore
\* that holds two different eprofiles
C4_Witness ==
    /\ last.op = "delete" /\ last.ret = 0
    /\ Len(placed[1]) = 2 /\ placed[1][1] # placed[1][2]
    /\ stores[1].alloc

\* C5: get_eprofile with a valid datastore and an index below its size returns
\* the entry at the index and adds exactly one to the reference count of that
\* eprofile (a live object) and changes no other; when it returns NULL no
\* reference count changes.
C5_GetBumpsByOne ==
    [][last'.op = "get" =>
       \A h \in Handles, ix \in Indexes, ub \in UBOutcomes :
         GetEprofile(h, ix, ub) =>
            IF h \in D /\ ix >= 0 /\ ix < Len(stores[h].eprofiles)
            THEN LET e == stores[h].eprofiles[ix + 1]
                 IN /\ last'.ret = e
                    /\ eprofiles[e].state = "alive"
                    /\ eprofiles' = [eprofiles EXCEPT ![e].refcount = @ + 1]
            ELSE last'.ret = NULL /\ eprofiles' = eprofiles]_vars

CreateFails(fail) == fail \in {"ds", "eds", "vec"}

\* C6: create_from_profile_name with a name that resolves to a profile whose
\* eprofile cannot be built returns NULL and leaves no datastore, no eprofile
\* and no profile reference behind.
C6_BuildFailureRollsBack ==
    [][last'.op = "create_from_profile_name" =>
       \A name \in ProfileNames, fail \in FailPoints :
         (CreateFromProfileName(name, fail) /\ ~CreateFails(fail)
             /\ (name = "bad" \/ fail = "build")) =>
            /\ last'.ret = NULL
            /\ stores' = stores
            /\ eprofiles' = eprofiles
            /\ profiles' = profiles]_vars

C6_Witness ==
    /\ last.op = "create_from_profile_name" /\ last.stage = "build" /\ last.ret = NULL
    /\ \A d \in D : ~stores[d].alloc

\* C7: on every exit path of create_from_profile_name the profile obtained from
\* sorcery is released exactly once (its reference count is back at its value
\* before the call) and the eprofile the function built is released exactly
\* once by the function.
C7_ReleasesOnEveryPath ==
    [][last'.op = "create_from_profile_name" =>
       \A name \in Names, fail \in FailPoints :
         CreateFromProfileName(name, fail) =>
            /\ last'.profRel = (IF name \in ProfileNames THEN 1 ELSE 0)
            /\ profiles' = profiles
            /\ last'.epRel = (IF last'.built # NULL THEN 1 ELSE 0)
            /\ last'.built # NULL <=> (name = "good" /\ fail \notin {"ds", "eds", "vec", "build"})
            /\ last'.built # NULL =>
                  /\ eprofiles[last'.built].state = "free"
                  /\ eprofiles'[last'.built].refcount = 1 - last'.epRel]_vars

C7_Witness ==
    /\ last.op = "create_from_profile_name" /\ last.stage = "ok"
    /\ last.profRel = 1 /\ last.epRel = 1 /\ last.built # NULL

\* C8: create_from_eprofile(ep) returns a datastore of size 1 whose entry 0 is
\* ep, or NULL; when it returns NULL no datastore remains allocated by the call
\* and no reference count has changed.
C8_CreateFromEprofileAllOrNothing ==
    [][last'.op = "create_from_eprofile" =>
       \A e \in E \cup {NULL}, fail \in FailPoints, ghost \in Ids :
         CreateFromEprofile(e, fail, ghost) =>
            IF last'.ret # NULL
            THEN /\ last'.ret \in D /\ ~stores[last'.ret].alloc
                 /\ ast_geoloc_datastore_size(stores', last'.ret) = 1
                 /\ stores'[last'.ret].eprofiles = <<e>>
                 /\ \A d \in D \ {last'.ret} : stores'[d] = stores[d]
            ELSE stores' = stores /\ eprofiles' = eprofiles]_vars

\* a datastore was allocated for the eprofile and destroyed again before the
\* call returned NULL
C8_Witness ==
    /\ last.op = "create_from_eprofile" /\ last.ret = NULL
    /\ last.ep # NULL /\ last.allocs > 0
    /\ \A d \in D : ~stores[d].alloc

\* C9: with a NULL handle, a datastore of another type or a datastore without
\* data, add_eprofile returns -1, size returns -1 and get_eprofile returns
\* NULL, and no datastore content and no reference count changes.
C9_InvalidHandleRejected ==
    [][last'.op \in {"add", "size", "get"} =>
       \A h \in {NULL, OtherDs, NoDataDs} :
         /\ \A e \in E \cup {NULL}, fail \in {"none", "grow"} :
               AddEprofile(h, e, fail) =>
                  last'.ret = -1 /\ stores' = stores /\ eprofiles' = eprofiles
         /\ Size(h) => last'.ret = -1 /\ stores' = stores /\ eprofiles' = eprofiles
         /\ \A ix \in Indexes, ub \in UBOutcomes :
               GetEprofile(h, ix, ub) =>
                  last'.ret = NULL /\ stores' = stores /\ eprofiles' = eprofiles]_vars

\* get_eprofile was refused on a handle that is not a geoloc datastore while a
\* geoloc datastore with an eprofile exists
C9_Witness ==
    /\ last.op = "get" /\ ~last.valid /\ last.ret = NULL
    /\ \E d \in D : stores[d].alloc /\ Len(stores[d].eprofiles) > 0

\* C10: create(id) returns a datastore if and only if id is non-empty and every
\* allocation succeeds; the datastore is a geoloc datastore of size 0; with a
\* NULL or empty id it returns NULL and allocates nothing.
C10_CreateIffIdAndAllocations ==
    [][last'.op = "create" =>
       \A id \in Ids, fail \in FailPoints :
         Create(id, fail) =>
            /\ last'.ret # NULL <=> (id \notin {NullStr, ""} /\ ~CreateFails(fail))
            /\ last'.ret # NULL =>
                  /\ last'.ret \in D /\ ~stores[last'.ret].alloc
                  /\ stores'[last'.ret].alloc
                  /\ stores'[last'.ret].type = GEOLOC_DS_TYPE
                  /\ ~InvalidDs(stores', last'.ret)
                  /\ ast_geoloc_datastore_size(stores', last'.ret) = 0
            /\ id \in {NullStr, ""} => (last'.allocs = 0 /\ stores' = stores)]_vars

C10_Witness ==
    /\ last.op = "create" /\ last.ret # NULL
    /\ stores[last.ret].alloc /\ stores[last.ret].eprofiles = <<>>

\* C11: a datastore carries the identifier it was created with: after a
\* successful create(id) its id is id, after a successful
\* create_from_profile_name(name) it is name, after a successful
\* create_from_eprofile(ep) it is the id of ep; the id of a datastore does not
\* change while the datastore exists.
C11_StoreCarriesId ==
    [][/\ last'.op = "create" =>
          \A id \in Ids, fail \in FailPoints :
             (Create(id, fail) /\ last'.ret # NULL) =>
                stores'[last'.ret].id = id
       /\ last'.op = "create_from_profile_name" =>
          \A name \in Names, fail \in FailPoints :
             (CreateFromProfileName(name, fail) /\ last'.ret # NULL) =>
                stores'[last'.ret].id = name
       /\ last'.op = "create_from_eprofile" =>
          \A e \in E, fail \in FailPoints, ghost \in Ids :
             (CreateFromEprofile(e, fail, ghost) /\ last'.ret # NULL /\ ~Dangling(eprofiles, e)) =>
                stores'[last'.ret].id = eprofiles[e].id
       /\ \A d \in D : (stores[d].alloc /\ stores'[d].alloc) => stores'[d].id = stores[d].id]_vars

\* C12: create_from_profile_name with a NULL or empty name, or with a name for
\* which sorcery has no profile, returns NULL as an ordinary failure: it makes
\* no allocation for a datastore, builds no eprofile and changes no datastore,
\* eprofile or profile reference count.
C12_EmptyOrMissingNameFails ==
    [][last'.op = "create_from_profile_name" =>
       \A name \in Names \ ProfileNames, fail \in FailPoints :
         CreateFromProfileName(name, fail) =>
            /\ last'.ret = NULL
            /\ last'.stage = (IF ast_strlen_zero(name) THEN "empty" ELSE "notfound")
            /\ ast_geoloc_datastore_create_from_profile_name(
                  stores, eprofiles, profiles, name, fail).allocs = 0
            /\ last'.built = NULL
            /\ stores' = stores /\ eprofiles' = eprofiles /\ profiles' = profiles
            /\ ~uaf']_vars

\* the lookup of a name without profile failed while every allocation would
\* have succeeded
C12_Witness ==
    /\ last.op = "create_from_profile_name" /\ last.stage = "notfound" /\ last.ret = NULL
    /\ FreeStores(stores) # {} /\ FreeEprofiles(eprofiles) # {}

\* C13: a datastore holds no NULL entry at any index below its size;
\* add_eprofile returns -1 for a NULL eprofile, and an add that returns -1
\* (NULL eprofile or failed growth of the vector) leaves the size and the
\* entries of the datastore unchanged.
C13_DenseNoNullSlot ==
    [][/\ \A d \in D : stores'[d].alloc =>
             /\ ast_geoloc_datastore_size(stores', d) = Len(stores'[d].eprofiles)
             /\ \A i \in 0..(ast_geoloc_datastore_size(stores', d) - 1) :
                   stores'[d].eprofiles[i + 1] # NULL
       /\ last'.op = "add" =>
          \A h \in D, e \in E \cup {NULL}, fail \in {"none", "grow"} :
             AddEprofile(h, e, fail) =>
                /\ e = NULL => last'.ret = -1
                /\ (fail = "grow" /\ Len(stores[h].eprofiles) >= stores[h].max) => last'.ret = -1
                /\ last'.ret = -1 =>
                      /\ stores' = stores
                      /\ ast_geoloc_datastore_size(stores', h) = ast_geoloc_datastore_size(stores, h)]_vars

\* an add was refused on a datastore that holds as many eprofiles as its
\* vector has room for
C13_Witness ==
    /\ last.op = "add" /\ last.ret = -1 /\ last.valid
    /\ stores[1].alloc /\ Len(stores[1].eprofiles) = VECTOR_INIT_SIZE

\* C14: when create(id) with a non-empty id fails at the allocation of the
\* datastore, of the private structure or of the vector, it returns NULL and
\* what the call allocated before the failure is released: no datastore slot,
\* private structure or vector of the call remains.
C14_CreateFailureReleasesAll ==
    [][last'.op = "create" =>
       \A id \in Ids \ {NullStr, ""}, fail \in {"ds", "eds", "vec"} :
         Create(id, fail) =>
            /\ last'.ret = NULL
            /\ last'.allocs = (IF fail = "ds" THEN 0 ELSE IF fail = "eds" THEN 1 ELSE 2)
            /\ last'.live = 0
            /\ stores' = stores
            /\ \A d \in D : ~stores[d].alloc => stores'[d] = EmptySlot]_vars

\* the datastore and its private structure were allocated and the vector
\* could not be initialised
C14_Witness ==
    /\ last.op = "create" /\ last.ret = NULL /\ last.allocs = 2 /\ last.live = 0
    /\ \A d \in D : stores[d] = EmptySlot

\* C15: an eprofile that was added to two datastores is destroyed only when
\* both datastores are destroyed and no caller holds a reference to it any
\* more, and it is destroyed once: no release or fetch reaches it after its
\* destruction.
C15_SharedDestroyedOnceAtLastRelease ==
    /\ eprofiles[1].state = "destroyed" =>
          /\ held[1] = 0
          /\ \A d \in {1, 2} : ~stores[d].alloc
    /\ ~uaf

\* C16: after any sequence of load, unload and reload the global sorcery
\* handle is NULL or backed by exactly one reference held by this file, the
\* hooks never release more references than load acquired and never keep one
\* without a handle, and create_from_profile_name never looks a profile up
\* through a handle whose reference was released.
C16_SorceryHandleBacked ==
    /\ geoloc_sorcery.handle => geoloc_sorcery.refs = 1
    /\ ~geoloc_sorcery.handle => geoloc_sorcery.refs = 0
    /\ geoloc_sorcery.refs >= 0
    /\ last.op = "create_from_profile_name" => last.sorcery # "released"

\* C17: get_eprofile on a geoloc datastore returns NULL for every index
\* outside 0..size-1, negative indexes included, without reading a slot of the
\* vector and without touching a reference count; this holds for the index of
\* every call made and, for every datastore a call has produced, for indexes
\* around the limits of a 32-bit int.
C17_OutOfRangeIndexReadsNothing ==
    [][/\ last'.op = "get" =>
          \A h \in D, ix \in {last'.ix}, ub \in UBOutcomes :
             ((ix < 0 \/ ix >= ast_geoloc_datastore_size(stores, h)) /\ GetEprofile(h, ix, ub)) =>
                /\ last'.ret = NULL
                /\ ~ast_geoloc_datastore_get_eprofile(stores, eprofiles, h, ix, ub).oob
                /\ eprofiles' = eprofiles
                /\ ~uaf'
       /\ stores' # stores =>
          \A d \in D : stores'[d].alloc =>
             \A ix \in WideIndexes :
                (ix < 0 \/ ix >= ast_geoloc_datastore_size(stores', d)) =>
                   LET r == ast_geoloc_datastore_get_eprofile(stores', eprofiles', d, ix, "badmagic")
                   IN r.ret = NULL /\ ~r.oob /\ r.eprofiles = eprofiles']_vars

\* a negative index was refused on a datastore that holds eprofiles
C17_Witness ==
    /\ last.op = "get" /\ last.valid /\ last.ix < 0 /\ last.ret = NULL
    /\ stores[1].alloc /\ Len(stores[1].eprofiles) > 0

\* C18: size and get_eprofile do not change a datastore: after either call
\* with any handle and any index every datastore has the size and the entries
\* it had; size changes no reference count, and get_eprofile changes nothing
\* but the reference count of the eprofile it returns.
C18_ReadsLeaveStoreUnchanged ==
    [][/\ last'.op = "size" =>
          \A h \in Handles :
             Size(h) => (stores' = stores /\ eprofiles' = eprofiles /\ profiles' = profiles)
       /\ last'.op = "get" =>
          \A h \in Handles, ix \in {last'.ix}, ub \in UBOutcomes :
             GetEprofile(h, ix, ub) =>
                /\ stores' = stores
                /\ ast_geoloc_datastore_size(stores', h) = ast_geoloc_datastore_size(stores, h)
                /\ profiles' = profiles
                /\ \A e \in E :
                      /\ e # last'.ret => eprofiles'[e] = eprofiles[e]
                      /\ eprofiles'[e].state = eprofiles[e].state
                      /\ eprofiles'[e].id = eprofiles[e].id]_vars

\* get_eprofile returned one of two different eprofiles of a datastore
C18_Witness ==
    /\ last.op = "get" /\ last.valid /\ last.ret # NULL
    /\ stores[1].alloc /\ Len(stores[1].eprofiles) = 2
    /\ stores[1].eprofiles[1] # stores[1].eprofiles[2]
    /\ \A i \in 1..2 : eprofiles[stores[1].eprofiles[i]].state = "alive"

====
